---- MODULE Spec2Model ----
(***************************************************************************)
(* Kinetic Ledger API gateway (apps/api-gateway/main.py): the admission   *)
(* pipeline of the FastAPI application -- request tracing middleware,      *)
(* per-client sliding-window rate limiting, HMAC webhook verification,     *)
(* motion-data hashing and nonce/expiry issuance.                          *)
(*                                                                         *)
(* The service runs on one asyncio event loop.  A coroutine runs without   *)
(* interruption between two awaits, so each action below is the code       *)
(* between two suspension points of one request:                           *)
(*   Receive   log_requests up to `await call_next(request)`;              *)
(*   the route action (FitnessTrackerWebhook, MocapWebhook,               *)
(*             GenerateAttestation, HealthCheck, ReadinessCheck): the      *)
(*             dependencies in declaration order, the validation of the    *)
(*             body model, the endpoint function;                          *)
(*   Complete  log_requests after call_next returned.                      *)
(* Time is counted in clock ticks, TicksPerSec ticks to the second.        *)
(***************************************************************************)
EXTENDS Integers, Sequences, FiniteSets, TLC

(* ------------------------------ bounds -------------------------------- *)
MaxInFlight == 2
MaxTime == 3
TicksPerSec == 2
MaxLimit == 2
MaxWindow == 1
DigestHexLen == 3

(* ------------------------- program constants -------------------------- *)
BasisPointMax == 10000
AttestationLifetime == 300
MsPerSec == 1000

(* Optional[T]: None or one value. *)
None == <<>>
Some(v) == <<v>>
IsNone(o) == o = <<>>
Get(o) == o[1]

(* ------------------------- text and rendering ------------------------- *)
(* A str is a sequence of characters; "e'" stands for a character outside *)
(* ASCII (a header byte >= 0x80, decoded as latin-1 by the framework).    *)
HexChars == <<"0", "1", "2", "3", "4", "5", "6", "7",
              "8", "9", "a", "b", "c", "d", "e", "f">>
NonAsciiChar == "e'"
Sha256Prefix == <<"s", "h", "a", "2", "5", "6", "=">>

IsAscii(s) == \A k \in 1..Len(s) : s[k] # NonAsciiChar

RECURSIVE Pow(_, _)
Pow(b, e) == IF e = 0 THEN 1 ELSE b * Pow(b, e - 1)

(* bytes.hex() / hexdigest(): fixed width, lowercase, most significant    *)
(* digit first.                                                            *)
hexdigest(d) ==
    [k \in 1..DigestHexLen |->
        HexChars[((d \div Pow(16, DigestHexLen - k)) % 16) + 1]]

(* The bytes of bodies and keys are drawn from 0..ByteVals-1. *)
ByteVals == 3

RECURSIVE SeqCode(_)
(* Bijective base-ByteVals numeral of a byte string: distinct strings     *)
(* have distinct codes.                                                    *)
SeqCode(s) ==
    IF s = <<>> THEN 0
    ELSE (s[1] + 1) + ByteVals * SeqCode(Tail(s))

(* An injective pairing of two codes. *)
Pair(a, b) == ((a + b) * (a + b + 1)) \div 2 + b

(* hashlib.sha256(data): the digest is idealised as collision free on the *)
(* bounded message space and truncated to DigestHexLen hex digits.        *)
sha256(data) == SeqCode(data) % Pow(16, DigestHexLen)

(* hmac.new(key, msg, hashlib.sha256): a keyed digest, idealised as       *)
(* collision free over (key, msg) on the bounded space.                   *)
hmac_new(key, msg) ==
    Pair(SeqCode(key), SeqCode(msg)) % Pow(16, DigestHexLen)

(* hmac.compare_digest on two str: TypeError unless both are ASCII.       *)
compare_digest(a, b) ==
    IF IsAscii(a) /\ IsAscii(b)
    THEN IF a = b THEN "equal" ELSE "differ"
    ELSE "TypeError"

(* ------------------------------- state -------------------------------- *)
VARIABLES
    traffic,           \* the requests the clients send in this run
    now,               \* time.time(), in ticks
    settings,          \* Settings(): read once at import, never reassigned
    rate_limit_store,  \* dict[str, list[float]]
    req,               \* the requests in flight, one record per connection
    history            \* observer: what the rate limiter answered so far

vars == <<traffic, now, settings, rate_limit_store, req, history>>

Slots == 1..MaxInFlight

(* ------------------------------ requests ------------------------------ *)
FitnessPath == "/webhooks/fitness-tracker"
MocapPath == "/webhooks/mocap"
AttestPath == "/attestations/generate"
HealthPath == "/health"
ReadyPath == "/health/ready"

WebhookPaths == {FitnessPath, MocapPath}
Paths == WebhookPaths \cup {AttestPath, HealthPath, ReadyPath}

(* the routes that declare Depends(rate_limit) *)
RateLimitedPaths == WebhookPaths \cup {AttestPath}

(* request.client is None when the server knows no peer address. *)
Clients == {None, Some("10.0.0.1")}

(* The JSON bodies are well formed.  A webhook body is one wallet byte    *)
(* (0: the wallet field is missing) followed by the keys of motion_data   *)
(* in wire order; an attestation body is <<confidence_score,              *)
(* local_density>>.                                                        *)
(* class MotionEventWebhook: the required fields are present. *)
MotionEventWebhook(body) == body # <<>> /\ body[1] # 0

InBasisPointsOffByOne(v) == v >= 0 /\ v <= BasisPointMax + 1

(* class AttestationRequest: Field(..., ge=0, le=10000) on both scores. *)
InBasisPoints(v) == v >= 0 /\ v <= BasisPointMax

AttestationRequest(body) ==
    /\ Len(body) = 2
    /\ InBasisPoints(body[1])
    /\ InBasisPoints(body[2])

RECURSIVE DictKeys(_, _)
(* The keys of the dict parsed from the wire, in insertion order: a       *)
(* repeated key keeps its first position.                                  *)
DictKeys(items, seen) ==
    IF items = <<>> THEN <<>>
    ELSE IF Head(items) \in seen THEN DictKeys(Tail(items), seen)
    ELSE <<Head(items)>> \o DictKeys(Tail(items), seen \cup {Head(items)})

(* str(event.motion_data): the items in insertion order. *)
motion_data_str(body) == DictKeys(Tail(body), {})

(* ---------------------------- rate limiter ---------------------------- *)
client_ip_one_key(r) == "unknown"

(* request.client.host if request.client else "unknown" *)
client_ip(r) == IF IsNone(r.client) THEN "unknown" ELSE Get(r.client)

InWindowInverted(ts, current_time) ==
    current_time - ts > settings.rate_limit_window * TicksPerSec

InWindowTwiceAsLong(ts, current_time) ==
    current_time - ts < 2 * settings.rate_limit_window * TicksPerSec

InWindowInclusive(ts, current_time) ==
    current_time - ts <= settings.rate_limit_window * TicksPerSec

(* current_time - ts < settings.rate_limit_window, in ticks *)
InWindow(ts, current_time) ==
    current_time - ts < settings.rate_limit_window * TicksPerSec

PruneNothing(seq, current_time) == seq

(* the list comprehension of lines 244-247 *)
Prune(seq, current_time) ==
    SelectSeq(seq, LAMBDA ts : InWindow(ts, current_time))

OverLimitStrict(count) == count > settings.rate_limit_requests

(* len(rate_limit_store[client_ip]) >= settings.rate_limit_requests *)
OverLimit(count) == count >= settings.rate_limit_requests

Event(level, name) == <<level, name>>

rate_limit_counting_rejections(store, ip, current_time) ==
    LET created == IF ip \in DOMAIN store THEN store
                   ELSE store @@ (ip :> <<>>)
        pruned == Prune(created[ip], current_time)
        appended == [created EXCEPT ![ip] = Append(pruned, current_time)]
    IN  IF OverLimit(Len(pruned))
        THEN [store |-> appended, raised |-> 429,
              log |-> <<Event("warning", "rate_limit_exceeded")>>]
        ELSE [store |-> appended, raised |-> 0, log |-> <<>>]

(* rate_limit(request) at clock reading current_time: the store after the *)
(* call, the HTTP status raised (0: none) and the events logged.          *)
rate_limit(store, ip, current_time) ==
    LET created == IF ip \in DOMAIN store THEN store
                   ELSE store @@ (ip :> <<>>)
        pruned == Prune(created[ip], current_time)
        cleaned == [created EXCEPT ![ip] = pruned]
    IN  IF OverLimit(Len(pruned))
        THEN [store |-> cleaned, raised |-> 429,
              log |-> <<Event("warning", "rate_limit_exceeded")>>]
        ELSE [store |-> [cleaned EXCEPT ![ip] = Append(pruned, current_time)],
              raised |-> 0, log |-> <<>>]

(* -------------------------- HMAC verification ------------------------- *)
expected_signature(secret, body) == hexdigest(hmac_new(secret, body))

verify_hmac_signature_first(secret, x_signature, body) ==
    IF IsNone(x_signature) \/ Get(x_signature) = <<>>
    THEN [raised |-> 401, detail |-> "Missing X-Signature header",
          log |-> <<Event("error", "hmac_signature_missing")>>]
    ELSE [raised |-> 0, detail |-> "",
          log |-> <<Event("warning", "hmac_verification_skipped")>>]

(* verify_hmac: the HTTP status raised (0: returns normally, 500: an      *)
(* exception that is not an HTTPException), the detail and the events.    *)
verify_hmac(secret, x_signature, body) ==
    IF secret = <<>>
    THEN [raised |-> 0, detail |-> "",
          log |-> <<Event("warning", "hmac_verification_skipped")>>]
    ELSE IF IsNone(x_signature) \/ Get(x_signature) = <<>>
    THEN [raised |-> 401, detail |-> "Missing X-Signature header",
          log |-> <<Event("error", "hmac_signature_missing")>>]
    ELSE LET cmp == compare_digest(Get(x_signature),
                        Sha256Prefix \o expected_signature(secret, body))
         IN  IF cmp = "TypeError"
             THEN [raised |-> 500, detail |-> "TypeError", log |-> <<>>]
             ELSE IF cmp = "differ"
             THEN [raised |-> 401, detail |-> "Invalid signature",
                   log |-> <<Event("error", "hmac_verification_failed")>>]
             ELSE [raised |-> 0, detail |-> "",
                   log |-> <<Event("debug", "hmac_verified")>>]

(* ------------------------------ responses ----------------------------- *)
NoContent ==
    [status |-> "", data_hash |-> <<>>, nonce |-> None, expiry |-> None,
     trace_id |-> "", message |-> "", detail |-> ""]

Response(code, content) ==
    [status_code |-> code, content |-> content, x_trace_id |-> None]

NoResponse == Response(0, NoContent)

(* raise HTTPException(status_code, detail) as rendered by the framework *)
HTTPException(code, detail) ==
    Response(code, [NoContent EXCEPT !.detail = detail])

(* the 422 the framework answers when the body model does not validate *)
ValidationError == HTTPException(422, "validation error")

(* an exception that no handler catches: the server answers 500 *)
ServerError == HTTPException(500, "Internal Server Error")

(* --------------------------- route handlers --------------------------- *)
(* The body of fitness_tracker_webhook, lines 362-400. *)
fitness_tracker_webhook(r) ==
    LET data_hash == hexdigest(sha256(motion_data_str(r.body)))
    IN  [response |->
            Response(200, [NoContent EXCEPT
                              !.status = "accepted",
                              !.data_hash = data_hash,
                              !.trace_id = r.trace_id,
                              !.message = "Motion event queued for processing"]),
         log |-> <<Event("info", "fitness_tracker_event_received"),
                   Event("info", "motion_data_hashed")>>]

mocap_webhook_hashing_whole_event(r) ==
    LET data_hash == hexdigest(sha256(r.body))
    IN  [response |->
            Response(200, [NoContent EXCEPT
                              !.status = "accepted",
                              !.data_hash = data_hash,
                              !.trace_id = r.trace_id,
                              !.message = "Mocap event queued for processing"]),
         log |-> <<Event("info", "mocap_event_received"),
                   Event("info", "mocap_data_hashed")>>]

(* The body of mocap_webhook, lines 414-451. *)
mocap_webhook(r) ==
    LET data_hash == hexdigest(sha256(motion_data_str(r.body)))
    IN  [response |->
            Response(200, [NoContent EXCEPT
                              !.status = "accepted",
                              !.data_hash = data_hash,
                              !.trace_id = r.trace_id,
                              !.message = "Mocap event queued for processing"]),
         log |-> <<Event("info", "mocap_event_received"),
                   Event("info", "mocap_data_hashed")>>]

webhook_route_hashing_first(r, store, current_time, ep) ==
    LET rl == rate_limit(store, client_ip(r), current_time)
        vh == verify_hmac(settings.webhook_secret, r.x_signature, r.body)
    IN  IF rl.raised # 0
        THEN [store |-> rl.store, log |-> ep.log \o rl.log,
              response |-> HTTPException(rl.raised, "Rate limit")]
        ELSE IF vh.raised # 0
        THEN [store |-> rl.store, log |-> ep.log \o rl.log \o vh.log,
              response |-> HTTPException(vh.raised, vh.detail)]
        ELSE IF ~MotionEventWebhook(r.body)
        THEN [store |-> rl.store, log |-> rl.log \o vh.log,
              response |-> ValidationError]
        ELSE [store |-> rl.store, log |-> ep.log \o rl.log \o vh.log,
              response |-> ep.response]

webhook_route_verifying_first(r, store, current_time, ep) ==
    LET rl == rate_limit(store, client_ip(r), current_time)
        vh == verify_hmac(settings.webhook_secret, r.x_signature, r.body)
    IN  IF vh.raised = 500
        THEN [store |-> store, log |-> vh.log, response |-> ServerError]
        ELSE IF vh.raised # 0
        THEN [store |-> store, log |-> vh.log,
              response |-> HTTPException(vh.raised, vh.detail)]
        ELSE IF rl.raised # 0
        THEN [store |-> rl.store, log |-> vh.log \o rl.log,
              response |-> HTTPException(rl.raised, "Rate limit")]
        ELSE IF ~MotionEventWebhook(r.body)
        THEN [store |-> rl.store, log |-> vh.log \o rl.log,
              response |-> ValidationError]
        ELSE [store |-> rl.store, log |-> vh.log \o rl.log \o ep.log,
              response |-> ep.response]

webhook_route_refunding_refused(r, store, current_time, ep) ==
    LET rl == rate_limit(store, client_ip(r), current_time)
        vh == verify_hmac(settings.webhook_secret, r.x_signature, r.body)
        refunded == [rl.store EXCEPT ![client_ip(r)] =
                        SubSeq(@, 1, Len(@) - 1)]
    IN  IF rl.raised # 0
        THEN [store |-> rl.store, log |-> rl.log,
              response |-> HTTPException(rl.raised, "Rate limit")]
        ELSE IF vh.raised = 500
        THEN [store |-> rl.store, log |-> rl.log \o vh.log,
              response |-> ServerError]
        ELSE IF vh.raised # 0
        THEN [store |-> refunded, log |-> rl.log \o vh.log,
              response |-> HTTPException(vh.raised, vh.detail)]
        ELSE IF ~MotionEventWebhook(r.body)
        THEN [store |-> rl.store, log |-> rl.log \o vh.log,
              response |-> ValidationError]
        ELSE [store |-> rl.store, log |-> rl.log \o vh.log \o ep.log,
              response |-> ep.response]

(* A webhook route: Depends(rate_limit), Depends(verify_hmac), the        *)
(* MotionEventWebhook body, then the endpoint function, whose outcome on  *)
(* this request is ep.                                                    *)
webhook_route(r, store, current_time, ep) ==
    LET rl == rate_limit(store, client_ip(r), current_time)
        vh == verify_hmac(settings.webhook_secret, r.x_signature, r.body)
    IN  IF rl.raised # 0
        THEN [store |-> rl.store, log |-> rl.log,
              response |-> HTTPException(rl.raised, "Rate limit")]
        ELSE IF vh.raised = 500
        THEN [store |-> rl.store, log |-> rl.log \o vh.log,
              response |-> ServerError]
        ELSE IF vh.raised # 0
        THEN [store |-> rl.store, log |-> rl.log \o vh.log,
              response |-> HTTPException(vh.raised, vh.detail)]
        ELSE IF ~MotionEventWebhook(r.body)
        THEN [store |-> rl.store, log |-> rl.log \o vh.log,
              response |-> ValidationError]
        ELSE [store |-> rl.store, log |-> rl.log \o vh.log \o ep.log,
              response |-> ep.response]

WholeSecondsRounded(t) == (t + TicksPerSec - 1) \div TicksPerSec

(* int(time.time()) *)
WholeSeconds(t) == t \div TicksPerSec

(* The body of generate_attestation; issue_time is the clock reading of   *)
(* line 484.                                                               *)
attestation_body(r, issue_time) ==
    LET nonce == WholeSeconds(issue_time)
        expiry == nonce + AttestationLifetime
    IN  [response |->
            Response(200, [NoContent EXCEPT !.status = "generated",
                                             !.nonce = Some(nonce),
                                             !.expiry = Some(expiry),
                                             !.trace_id = r.trace_id]),
         log |-> <<Event("info", "attestation_generation_requested"),
                   Event("info", "attestation_generated")>>]

attestation_route_own_budget(r, store, current_time, issue_time) ==
    LET rl == rate_limit(store, client_ip(r) \o r.path, current_time)
        ep == attestation_body(r, issue_time)
    IN  IF rl.raised # 0
        THEN [store |-> rl.store, log |-> rl.log,
              response |-> HTTPException(rl.raised, "Rate limit")]
        ELSE IF ~AttestationRequest(r.body)
        THEN [store |-> rl.store, log |-> rl.log,
              response |-> ValidationError]
        ELSE [store |-> rl.store, log |-> rl.log \o ep.log,
              response |-> ep.response]

(* /attestations/generate: Depends(rate_limit), the AttestationRequest    *)
(* body, then the endpoint function.                                      *)
attestation_route(r, store, current_time, issue_time) ==
    LET rl == rate_limit(store, client_ip(r), current_time)
        ep == attestation_body(r, issue_time)
    IN  IF rl.raised # 0
        THEN [store |-> rl.store, log |-> rl.log,
              response |-> HTTPException(rl.raised, "Rate limit")]
        ELSE IF ~AttestationRequest(r.body)
        THEN [store |-> rl.store, log |-> rl.log,
              response |-> ValidationError]
        ELSE [store |-> rl.store, log |-> rl.log \o ep.log,
              response |-> ep.response]

(* /health *)
health_check ==
    Response(200, [NoContent EXCEPT !.status = "healthy"])

(* /health/ready: arc_rpc_url keeps its non-empty default. *)
readiness_check ==
    IF settings.webhook_secret # <<>>
    THEN Response(200, [NoContent EXCEPT !.status = "ready"])
    ELSE Response(503, [NoContent EXCEPT !.status = "not_ready"])

(* ----------------------------- middleware ----------------------------- *)
(* f"trace_{int(time.time() * 1000)}" *)
synthesized_trace_id(t) == "trace_" \o ToString((t * MsPerSec) \div TicksPerSec)

entry_trace_id_ignoring_header(x_trace_id, t) == synthesized_trace_id(t)

(* request.headers.get("X-Trace-ID", default) *)
entry_trace_id(x_trace_id, t) ==
    IF IsNone(x_trace_id) THEN synthesized_trace_id(t) ELSE Get(x_trace_id)

Idle ==
    [pc |-> "idle", path |-> "", client |-> None, x_trace_id |-> None,
     x_signature |-> None, body |-> <<>>, trace_id |-> "",
     response |-> NoResponse, log |-> <<>>]

(* ------------------------------- inputs ------------------------------- *)
Secrets == {<<>>, <<1>>}

ValidSignature(secret, body) ==
    Sha256Prefix \o expected_signature(secret, body)

(* s with its k-th character replaced by c *)
Flip(s, k, c) == [s EXCEPT ![k] = c]

(* The X-Signature headers a client may send with a body: none, empty,    *)
(* the valid one, the valid one of another body, and the valid one with   *)
(* its last character replaced by another ASCII or a non-ASCII one.       *)
SignatureKinds == {"absent", "empty", "valid", "other_body", "flipped", "non_ascii"}

Signature(kind, secret, body) ==
    LET good == ValidSignature(secret, body)
        last == Len(good)
    IN  CASE kind = "absent" -> None
          [] kind = "empty" -> Some(<<>>)
          [] kind = "valid" -> Some(good)
          [] kind = "other_body" -> Some(ValidSignature(secret, Append(body, 1)))
          [] kind = "flipped" ->
                Some(Flip(good, last, IF good[last] = "0" THEN "1" ELSE "0"))
          [] kind = "non_ascii" -> Some(Flip(good, last, NonAsciiChar))

Inbound ==
    {[path |-> p, client |-> c, x_trace_id |-> x,
      x_signature |-> Signature(k, settings.webhook_secret, b), body |-> b] :
        p \in traffic.paths \cap WebhookPaths, c \in traffic.clients,
        x \in traffic.traces, k \in traffic.signatures, b \in traffic.events}
    \cup
    {[path |-> p, client |-> c, x_trace_id |-> x,
      x_signature |-> None, body |-> b] :
        p \in traffic.paths \cap {AttestPath}, c \in traffic.clients,
        x \in traffic.traces, b \in traffic.attestations}
    \cup
    {[path |-> p, client |-> c, x_trace_id |-> x,
      x_signature |-> None, body |-> <<>>] :
        p \in traffic.paths \ (WebhookPaths \cup {AttestPath}),
        c \in traffic.clients, x \in traffic.traces}

(* ------------------------------ observer ------------------------------ *)
(* history records, beside the program, what rate_limit answered:         *)
(*   burst[ip]  the clock reading of the last call that found the window  *)
(*              of ip empty and, in order, whether each call made less    *)
(*              than the window after it was admitted (that call          *)
(*              included, the first rate_limit_requests + 1 of them);     *)
(*   rejected   the identities that were rejected at least once;           *)
(*   recovered  the identities admitted, after a rejection, by a call     *)
(*              made later than the oldest recorded timestamp plus the     *)
(*              window;                                                    *)
(*   edge       the identities admitted by a call that found at least     *)
(*              rate_limit_requests timestamps no older than the window,  *)
(*              one of them exactly the window old;                       *)
(*   refused    the identities whose recorded timestamps were all         *)
(*              appended by requests answered 401.                        *)
Identities == {"unknown", "10.0.0.1"}

WindowTicks == settings.rate_limit_window * TicksPerSec

Recorded(store, ip) == IF ip \in DOMAIN store THEN store[ip] ELSE <<>>

WindowEmpty(store, ip, t) ==
    \A k \in 1..Len(Recorded(store, ip)) :
        t - Recorded(store, ip)[k] >= WindowTicks

PastOldest(store, ip, t) ==
    /\ Recorded(store, ip) # <<>>
    /\ \E k \in 1..Len(Recorded(store, ip)) :
          /\ \A m \in 1..Len(Recorded(store, ip)) :
                Recorded(store, ip)[k] <= Recorded(store, ip)[m]
          /\ t > Recorded(store, ip)[k] + WindowTicks

NoBurst == [start |-> 0, last |-> 0, admitted |-> <<>>]

NoHistory ==
    [burst |-> [ip \in Identities |-> NoBurst], rejected |-> {},
     recovered |-> {}, edge |-> {}, refused |-> {}]

(* The timestamps of ip that are at most the window old at t. *)
ClosedCount(store, ip, t) ==
    Cardinality({k \in 1..Len(Recorded(store, ip)) :
                    t - Recorded(store, ip)[k] <= WindowTicks})

OnEdge(store, ip, t) ==
    \E k \in 1..Len(Recorded(store, ip)) :
        t - Recorded(store, ip)[k] = WindowTicks

Observe(h, store, ip, t, status) ==
    LET admitted == status # 429
        old == h.burst[ip]
        burst == IF WindowEmpty(store, ip, t)
                 THEN [start |-> t, last |-> t, admitted |-> <<admitted>>]
                 ELSE IF /\ t - old.start < WindowTicks
                         /\ Len(old.admitted) <= settings.rate_limit_requests
                 THEN [start |-> old.start, last |-> t,
                       admitted |-> Append(old.admitted, admitted)]
                 ELSE old
    IN  [burst |-> [h.burst EXCEPT ![ip] = burst],
         rejected |-> IF admitted THEN h.rejected ELSE h.rejected \cup {ip},
         recovered |-> IF /\ admitted
                          /\ ip \in h.rejected
                          /\ PastOldest(store, ip, t)
                       THEN h.recovered \cup {ip} ELSE h.recovered,
         edge |-> IF /\ admitted
                     /\ OnEdge(store, ip, t)
                     /\ ClosedCount(store, ip, t) >= settings.rate_limit_requests
                  THEN h.edge \cup {ip} ELSE h.edge,
         refused |-> IF ~admitted THEN h.refused
                     ELSE IF status # 401 THEN h.refused \ {ip}
                     ELSE IF WindowEmpty(store, ip, t)
                     THEN h.refused \cup {ip} ELSE h.refused]

(* ------------------------------ actions ------------------------------- *)
(* log_requests, lines 204-217: up to `await call_next(request)`. *)
Receive(i) ==
    /\ req[i].pc = "idle"
    /\ i <= traffic.connections
    /\ \E r \in Inbound :
          req' = [req EXCEPT ![i] =
                    [Idle EXCEPT !.pc = "call_next",
                                 !.path = r.path,
                                 !.client = r.client,
                                 !.x_trace_id = r.x_trace_id,
                                 !.x_signature = r.x_signature,
                                 !.body = r.body,
                                 !.trace_id = entry_trace_id(r.x_trace_id, now),
                                 !.log = <<Event("info", "request_received")>>]]
    /\ UNCHANGED <<traffic, now, settings, rate_limit_store, history>>

Returned(i, result) ==
    req' = [req EXCEPT ![i].pc = "returned",
                       ![i].response = result.response,
                       ![i].log = @ \o result.log]

FitnessTrackerWebhook(i) ==
    /\ req[i].pc = "call_next"
    /\ req[i].path = FitnessPath
    /\ LET result == webhook_route(req[i], rate_limit_store, now,
                                    fitness_tracker_webhook(req[i]))
       IN  /\ rate_limit_store' = result.store
           /\ Returned(i, result)
           /\ history' = Observe(history, rate_limit_store, client_ip(req[i]),
                                  now, result.response.status_code)
    /\ UNCHANGED <<traffic, now, settings>>

MocapWebhook(i) ==
    /\ req[i].pc = "call_next"
    /\ req[i].path = MocapPath
    /\ LET result == webhook_route(req[i], rate_limit_store, now,
                                    mocap_webhook(req[i]))
       IN  /\ rate_limit_store' = result.store
           /\ Returned(i, result)
           /\ history' = Observe(history, rate_limit_store, client_ip(req[i]),
                                  now, result.response.status_code)
    /\ UNCHANGED <<traffic, now, settings>>

(* The clock may advance between the reading of rate_limit (line 238)     *)
(* and the reading of the handler (line 484).                             *)
GenerateAttestation(i) ==
    /\ req[i].pc = "call_next"
    /\ req[i].path = AttestPath
    /\ \E issue_time \in {t \in {now, now + 1} : t <= MaxTime} :
          LET result == attestation_route(req[i], rate_limit_store, now,
                                          issue_time)
          IN  /\ rate_limit_store' = result.store
              /\ Returned(i, result)
              /\ history' = Observe(history, rate_limit_store,
                                     client_ip(req[i]), now,
                                     result.response.status_code)
              /\ now' = issue_time
    /\ UNCHANGED <<traffic, settings>>

HealthCheck(i) ==
    /\ req[i].pc = "call_next"
    /\ req[i].path = HealthPath
    /\ Returned(i, [response |-> health_check, log |-> <<>>])
    /\ UNCHANGED <<traffic, now, settings, rate_limit_store, history>>

ReadinessCheck(i) ==
    /\ req[i].pc = "call_next"
    /\ req[i].path = ReadyPath
    /\ Returned(i, [response |-> readiness_check,
                    log |-> IF settings.webhook_secret = <<>>
                            THEN <<Event("warning", "readiness_check_failed")>>
                            ELSE <<>>])
    /\ UNCHANGED <<traffic, now, settings, rate_limit_store, history>>

(* log_requests, lines 219-231, after call_next returned.  An exception   *)
(* that is not an HTTPException is re-raised by call_next: the rest of    *)
(* the middleware does not run and the server answers 500.                *)
Complete(i) ==
    /\ req[i].pc = "returned"
    /\ req' = [req EXCEPT
          ![i].pc = "sent",
          ![i].response.x_trace_id =
              IF req[i].response.status_code = 500 THEN None
              ELSE Some(req[i].trace_id),
          ![i].log =
              IF req[i].response.status_code = 500 THEN @
              ELSE Append(@, Event("info", "request_completed"))]
    /\ UNCHANGED <<traffic, now, settings, rate_limit_store, history>>

(* The response is on the wire; the request object is dropped. *)
Close(i) ==
    /\ req[i].pc = "sent"
    /\ req' = [req EXCEPT ![i] = Idle]
    /\ UNCHANGED <<traffic, now, settings, rate_limit_store, history>>

(* The wall clock advances. *)
Tick ==
    /\ now < MaxTime
    /\ now' = now + 1
    /\ UNCHANGED <<traffic, settings, rate_limit_store, req, history>>

(* --------------------------- specification ---------------------------- *)
(* Each run serves one kind of traffic: *)
(* one client with several requests in flight at once; *)
Concurrent ==
    [connections |-> MaxInFlight,
     paths |-> {FitnessPath},
     clients |-> {Some("10.0.0.1")},
     secrets |-> {<<1>>},
     traces |-> {Some("client-trace")},
     signatures |-> {"valid"},
     events |-> {<<1, 1>>},
     attestations |-> {}]

(* two clients, one of them without a peer address, one request at a time; *)
Neighbours ==
    [connections |-> 1,
     paths |-> {MocapPath},
     clients |-> Clients,
     secrets |-> {<<1>>},
     traces |-> {Some("client-trace")},
     signatures |-> {"valid"},
     events |-> {<<1, 1>>},
     attestations |-> {}]

(* one client sending every kind of request without an X-Trace-ID, one   *)
(* at a time;                                                             *)
Sequential ==
    [connections |-> 1, paths |-> Paths, clients |-> {Some("10.0.0.1")},
     secrets |-> Secrets,
     traces |-> {None},
     signatures |-> SignatureKinds,
     events |-> {<<1, 1>>, <<0>>},
     attestations |-> {<<0, BasisPointMax>>, <<BasisPointMax + 1, 0>>,
                       <<0, 0 - 1>>}]

(* several health probes in flight at once, none with an X-Trace-ID;      *)
Untraced ==
    [connections |-> MaxInFlight,
     paths |-> {HealthPath},
     clients |-> {Some("10.0.0.1")},
     secrets |-> {<<1>>},
     traces |-> {None},
     signatures |-> {},
     events |-> {},
     attestations |-> {}]

(* one client sending one motion_data mapping with its keys in either     *)
(* order, two requests in flight at once;                                 *)
Reordered ==
    [connections |-> 2,
     paths |-> {MocapPath},
     clients |-> {Some("10.0.0.1")},
     secrets |-> {<<>>},
     traces |-> {Some("client-trace")},
     signatures |-> {"absent"},
     events |-> {<<1, 1, 2>>, <<1, 2, 1>>},
     attestations |-> {}]

(* one client sending to the three rate-limited routes, two requests in   *)
(* flight at once.                                                        *)
Mixed ==
    [connections |-> 2,
     paths |-> RateLimitedPaths,
     clients |-> {Some("10.0.0.1")},
     secrets |-> {<<>>},
     traces |-> {Some("client-trace")},
     signatures |-> {"absent"},
     events |-> {<<1, 1>>},
     attestations |-> {<<0, BasisPointMax>>}]

Profiles == {Concurrent, Neighbours, Sequential, Untraced, Reordered, Mixed}

SettingsSpace ==
    [webhook_secret : Secrets,
     rate_limit_requests : 1..MaxLimit,
     rate_limit_window : 1..MaxWindow]

Init ==
    /\ traffic \in Profiles
    /\ now = 0
    /\ settings \in SettingsSpace
    /\ settings.webhook_secret \in traffic.secrets
    /\ rate_limit_store = [ip \in {} |-> <<>>]
    /\ req = [i \in Slots |-> Idle]
    /\ history = NoHistory

Next ==
    \/ \E i \in Slots : Receive(i)
    \/ \E i \in Slots : FitnessTrackerWebhook(i)
    \/ \E i \in Slots : MocapWebhook(i)
    \/ \E i \in Slots : GenerateAttestation(i)
    \/ \E i \in Slots : HealthCheck(i)
    \/ \E i \in Slots : ReadinessCheck(i)
    \/ \E i \in Slots : Complete(i)
    \/ \E i \in Slots : Close(i)
    \/ Tick

Spec == Init /\ [][Next]_vars


(* ------------------------------ properties ---------------------------- *)
(* Slot i runs its route, and with it rate_limit, in this step. *)
CallsRateLimit(i) ==
    /\ req[i].pc = "call_next"
    /\ req'[i].pc = "returned"
    /\ req[i].path \in RateLimitedPaths

(* C1: starting from an empty window of an identity, the first            *)
(* rate_limit_requests calls made less than rate_limit_window after the   *)
(* first one are all admitted and the next call made in that interval is  *)
(* rejected with 429.                                                     *)
C1_BurstAdmitsExactlyLimit ==
    \A ip \in Identities :
        \A k \in 1..Len(history.burst[ip].admitted) :
            /\ k <= settings.rate_limit_requests
                  => history.burst[ip].admitted[k]
            /\ k = settings.rate_limit_requests + 1
                  => ~history.burst[ip].admitted[k]

C1_Witness ==
    \E ip \in Identities :
        LET b == history.burst[ip]
            n == settings.rate_limit_requests
        IN  /\ n >= 2
            /\ Len(b.admitted) = n + 1
            /\ b.last > b.start
            /\ b.last - b.start < WindowTicks
            /\ \A k \in 1..n : b.admitted[k]
            /\ ~b.admitted[n + 1]

(* C2: once an identity has been rejected, a call made later than its     *)
(* oldest recorded timestamp plus the window is admitted.                 *)
C2_SlidingWindowRecovers ==
    [][\A i \in Slots :
          /\ CallsRateLimit(i)
          /\ client_ip(req[i]) \in history.rejected
          /\ PastOldest(rate_limit_store, client_ip(req[i]), now)
          => req'[i].response.status_code # 429]_vars

C2_Witness == history.recovered # {}

(* C3: a rejected call appends nothing: the sequence of the identity      *)
(* after the call is its sequence before the call without the timestamps  *)
(* that left the window.                                                  *)
C3_RejectionConsumesNoSlot ==
    [][\A i \in Slots :
          /\ CallsRateLimit(i)
          /\ req'[i].response.status_code = 429
          => /\ client_ip(req[i]) \in DOMAIN rate_limit_store'
             /\ rate_limit_store'[client_ip(req[i])] =
                    SelectSeq(Recorded(rate_limit_store, client_ip(req[i])),
                              LAMBDA ts : now - ts < WindowTicks)]_vars

C3_Witness ==
    \E i \in Slots :
        /\ req[i].pc = "returned"
        /\ req[i].response.status_code = 429
        /\ Len(rate_limit_store[client_ip(req[i])])
              = settings.rate_limit_requests
        /\ \A k \in 1..Len(rate_limit_store[client_ip(req[i])]) :
              rate_limit_store[client_ip(req[i])][k] < now

(* C4: whatever the interleaving of the requests in flight, an admission  *)
(* passes only against the count of the timestamps that are in the window *)
(* at that moment, and no identity ever holds more than                   *)
(* rate_limit_requests timestamps.                                        *)
FreshCount(store, ip, t) ==
    Cardinality({k \in 1..Len(Recorded(store, ip)) :
                    t - Recorded(store, ip)[k] < WindowTicks})

C4_AdmissionIsAtomic ==
    [][/\ \A ip \in DOMAIN rate_limit_store' :
             Len(rate_limit_store'[ip]) <= settings.rate_limit_requests
       /\ \A i \in Slots :
             /\ CallsRateLimit(i)
             /\ req'[i].response.status_code # 429
             => /\ FreshCount(rate_limit_store, client_ip(req[i]), now)
                      < settings.rate_limit_requests
                /\ Len(rate_limit_store'[client_ip(req[i])])
                      = FreshCount(rate_limit_store, client_ip(req[i]), now) + 1
      ]_vars

C4_Witness ==
    \E i, j \in Slots :
        /\ i # j
        /\ req[i].pc = "returned" /\ req[j].pc = "returned"
        /\ req[i].path \in RateLimitedPaths /\ req[j].path \in RateLimitedPaths
        /\ client_ip(req[i]) = client_ip(req[j])
        /\ req[i].response.status_code = 200
        /\ req[j].response.status_code = 429
        /\ Len(rate_limit_store[client_ip(req[i])])
              = settings.rate_limit_requests

(* The requests whose route has returned or raised. *)
Answered == {i \in Slots : req[i].pc \in {"returned", "sent"}}

HasEvent(i, level, name) ==
    \E k \in 1..Len(req[i].log) : req[i].log[k] = <<level, name>>

(* The signature header the sender of body must present. *)
RequiredSignature(body) ==
    Some(Sha256Prefix \o hexdigest(hmac_new(settings.webhook_secret, body)))

(* C5: with a secret configured, a webhook request passes verify_hmac if  *)
(* and only if X-Signature is "sha256=" followed by the lowercase hex     *)
(* HMAC-SHA256 of the raw body; an absent signature fails with 401        *)
(* (missing) and any other signature fails with 401 (invalid).            *)
C5_HmacVerifiesExactlyValidSignature ==
    \A i \in Answered :
        /\ req[i].path \in WebhookPaths
        /\ settings.webhook_secret # <<>>
        /\ req[i].response.status_code # 429
        => /\ req[i].response.status_code \in {200, 422}
                <=> req[i].x_signature = RequiredSignature(req[i].body)
           /\ IsNone(req[i].x_signature)
                => /\ req[i].response.status_code = 401
                   /\ req[i].response.content.detail
                         = "Missing X-Signature header"
           /\ (/\ ~IsNone(req[i].x_signature)
               /\ Get(req[i].x_signature) # <<>>
               /\ req[i].x_signature # RequiredSignature(req[i].body))
                => /\ req[i].response.status_code = 401
                   /\ req[i].response.content.detail = "Invalid signature"

(* C6 as claimed: with no secret configured, every webhook request that   *)
(* reaches verify_hmac is verified whatever its X-Signature, the skip is  *)
(* logged as a warning, and the request is hashed and accepted with 200.  *)
C6_SkippedVerificationAlwaysAccepted ==
    \A i \in Answered :
        /\ req[i].path \in WebhookPaths
        /\ settings.webhook_secret = <<>>
        /\ req[i].response.status_code # 429
        => /\ HasEvent(i, "warning", "hmac_verification_skipped")
           /\ req[i].response.status_code = 200
           /\ req[i].response.content.status = "accepted"
           /\ req[i].response.content.data_hash # <<>>

(* C6 as amended: with no secret configured, every webhook request that   *)
(* reaches verify_hmac is verified whatever its X-Signature and the skip  *)
(* is logged as a warning; the request is then hashed and accepted with   *)
(* 200 when its body is a valid motion event, and answered 422 without    *)
(* hashing when it is not.                                                *)
C6_SkippedVerificationThenValidation ==
    \A i \in Answered :
        /\ req[i].path \in WebhookPaths
        /\ settings.webhook_secret = <<>>
        /\ req[i].response.status_code # 429
        => /\ HasEvent(i, "warning", "hmac_verification_skipped")
           /\ req[i].response.status_code # 401
           /\ IF req[i].body # <<>> /\ req[i].body[1] # 0
              THEN /\ req[i].response.status_code = 200
                   /\ req[i].response.content.status = "accepted"
                   /\ req[i].response.content.data_hash # <<>>
              ELSE /\ req[i].response.status_code = 422
                   /\ req[i].response.content.data_hash = <<>>

C6_Witness ==
    \E i \in Answered :
        /\ req[i].path \in WebhookPaths
        /\ settings.webhook_secret = <<>>
        /\ ~IsNone(req[i].x_signature)
        /\ ~IsAscii(Get(req[i].x_signature))
        /\ req[i].response.status_code = 200

BusinessEvents ==
    {"fitness_tracker_event_received", "motion_data_hashed",
     "mocap_event_received", "mocap_data_hashed",
     "attestation_generation_requested", "attestation_generated"}

(* C7: a request rejected with 429 or 401 never ran the hashing of the    *)
(* webhook routes nor the issuance of the attestation route, and its      *)
(* response holds no data_hash, nonce or expiry.                          *)
C7_NoBusinessLogicAfterRejection ==
    \A i \in Answered :
        req[i].response.status_code \in {401, 429}
        => /\ \A k \in 1..Len(req[i].log) :
                 req[i].log[k][2] \notin BusinessEvents
           /\ req[i].response.content.data_hash = <<>>
           /\ IsNone(req[i].response.content.nonce)
           /\ IsNone(req[i].response.content.expiry)

C7_Witness ==
    \E i \in Answered :
        /\ req[i].path \in WebhookPaths
        /\ req[i].response.status_code = 401
        /\ req[i].body # <<>> /\ req[i].body[1] # 0

OutOfRange(body) ==
    \E k \in 1..Len(body) : body[k] < 0 \/ body[k] > 10000

(* C8 as claimed: an attestation request with a score outside [0, 10000]  *)
(* is answered with a validation error and no nonce; every issued         *)
(* attestation has both scores within [0, 10000].                         *)
C8_OutOfRangeIsValidationError ==
    \A i \in Answered :
        req[i].path = AttestPath
        => /\ OutOfRange(req[i].body)
                => /\ req[i].response.status_code = 422
                   /\ IsNone(req[i].response.content.nonce)
                   /\ IsNone(req[i].response.content.expiry)
           /\ ~IsNone(req[i].response.content.nonce)
                => ~OutOfRange(req[i].body)

(* C8 as amended: an attestation request with a score outside [0, 10000]  *)
(* is rejected before any nonce is generated, with a validation error     *)
(* when the rate limiter admits it and with 429 when it does not; every   *)
(* issued attestation has both scores within [0, 10000].                  *)
C8_OutOfRangeNeverIssued ==
    \A i \in Answered :
        req[i].path = AttestPath
        => /\ OutOfRange(req[i].body)
                => /\ req[i].response.status_code
                         = IF HasEvent(i, "warning", "rate_limit_exceeded")
                           THEN 429 ELSE 422
                   /\ IsNone(req[i].response.content.nonce)
                   /\ IsNone(req[i].response.content.expiry)
                   /\ ~HasEvent(i, "info", "attestation_generated")
           /\ ~IsNone(req[i].response.content.nonce)
                => ~OutOfRange(req[i].body)

C8_Witness ==
    \E i \in Answered :
        /\ req[i].path = AttestPath
        /\ req[i].body[1] = 10001
        /\ req[i].response.status_code = 422
        /\ IsNone(req[i].response.content.nonce)

(* C9: an attestation issued at clock reading t has nonce = floor(t) in   *)
(* whole seconds and expiry = nonce + 300, so expiry - nonce = 300 and    *)
(* expiry > nonce in every issued envelope.                               *)
C9_NonceIsFloorAndExpiryIs300Later ==
    [][\A i \in Slots :
          /\ (/\ req[i].pc = "call_next"
              /\ req'[i].pc = "returned"
              /\ req[i].path = AttestPath
              /\ req'[i].response.status_code = 200)
             => /\ ~IsNone(req'[i].response.content.nonce)
                /\ Get(req'[i].response.content.nonce) * TicksPerSec <= now'
                /\ now' < (Get(req'[i].response.content.nonce) + 1) * TicksPerSec
          /\ ~IsNone(req'[i].response.content.nonce)
             => /\ ~IsNone(req'[i].response.content.expiry)
                /\ Get(req'[i].response.content.expiry)
                      = Get(req'[i].response.content.nonce) + 300
                /\ Get(req'[i].response.content.expiry)
                      - Get(req'[i].response.content.nonce) = 300
                /\ Get(req'[i].response.content.expiry)
                      > Get(req'[i].response.content.nonce)]_vars

C9_Witness ==
    \E i \in Answered :
        /\ req[i].response.content.status = "generated"
        /\ Get(req[i].response.content.nonce) >= 1
        /\ Get(req[i].response.content.nonce) * TicksPerSec < now
        /\ now < (Get(req[i].response.content.nonce) + 1) * TicksPerSec
        /\ Get(req[i].response.content.expiry)
              = Get(req[i].response.content.nonce) + 300

(* C10: the trace identifier of a request is the inbound X-Trace-ID when  *)
(* one was supplied and else the one synthesized at entry; it never       *)
(* changes while the request is in flight; every response sent with 200,  *)
(* 401 or 429 carries it in X-Trace-ID, and a 200 of a webhook or         *)
(* attestation route carries it in the trace_id field of its body.        *)
C10_TraceEcho ==
    [][\A i \in Slots :
          /\ (req[i].pc = "idle" /\ req'[i].pc # "idle")
             => req'[i].trace_id =
                   IF IsNone(req'[i].x_trace_id)
                   THEN "trace_" \o ToString((now * 1000) \div TicksPerSec)
                   ELSE Get(req'[i].x_trace_id)
          /\ (req[i].pc # "idle" /\ req'[i].pc # "idle")
             => /\ req'[i].trace_id = req[i].trace_id
                /\ req'[i].x_trace_id = req[i].x_trace_id
          /\ (req'[i].pc = "sent"
                /\ req'[i].response.status_code \in {200, 401, 429})
             => req'[i].response.x_trace_id = Some(req'[i].trace_id)
          /\ (req'[i].pc \in {"returned", "sent"}
                /\ req'[i].response.status_code = 200
                /\ req'[i].path \in RateLimitedPaths)
             => req'[i].response.content.trace_id = req'[i].trace_id]_vars

C10_Witness ==
    \E i \in Slots :
        /\ req[i].pc = "sent"
        /\ IsNone(req[i].x_trace_id)
        /\ req[i].response.status_code = 401
        /\ req[i].response.x_trace_id = Some(req[i].trace_id)
        /\ req[i].trace_id # synthesized_trace_id(now)

(* C11: any two distinct requests that arrived without an X-Trace-ID and  *)
(* are in flight together hold different synthesized trace identifiers.   *)
C11_SynthesizedTraceIdsUnique ==
    \A i, j \in Slots :
        /\ i # j
        /\ req[i].pc # "idle" /\ req[j].pc # "idle"
        /\ IsNone(req[i].x_trace_id) /\ IsNone(req[j].x_trace_id)
        => req[i].trace_id # req[j].trace_id

(* The outcome of the other webhook variant on the request of slot i,     *)
(* with the same configuration, store and clock.                          *)
OtherVariant(i) ==
    IF req[i].path = FitnessPath
    THEN webhook_route(req[i], rate_limit_store, now, mocap_webhook(req[i]))
    ELSE webhook_route(req[i], rate_limit_store, now,
                       fitness_tracker_webhook(req[i]))

(* The events a webhook step of slot i appended to the log of the request. *)
StepLog(i) == SubSeq(req'[i].log, Len(req[i].log) + 1, Len(req'[i].log))

EndpointLabels ==
    {"fitness_tracker_event_received", "motion_data_hashed",
     "mocap_event_received", "mocap_data_hashed"}

SameButLabels(a, b) ==
    /\ Len(a) = Len(b)
    /\ \A k \in 1..Len(a) :
          /\ a[k][1] = b[k][1]
          /\ a[k][2] # b[k][2]
                => a[k][2] \in EndpointLabels /\ b[k][2] \in EndpointLabels

WebhookStep(i) ==
    /\ req[i].pc = "call_next"
    /\ req'[i].pc = "returned"
    /\ req[i].path \in WebhookPaths

(* C12 as claimed: on the same request, configuration and store, the two  *)
(* webhook variants end in the same status, the same response content and *)
(* the same store, and log the same events up to the endpoint labels.     *)
C12_VariantsSameContent ==
    [][\A i \in Slots :
          WebhookStep(i)
          => /\ req'[i].response = OtherVariant(i).response
             /\ rate_limit_store' = OtherVariant(i).store
             /\ SameButLabels(StepLog(i), OtherVariant(i).log)]_vars

(* C12 as amended: on the same request, configuration and store, the two  *)
(* webhook variants end in the same status, the same store and the same   *)
(* response content except the message text of an accepted event, and log *)
(* the same events up to the endpoint labels.                             *)
C12_VariantsSameButMessage ==
    [][\A i \in Slots :
          WebhookStep(i)
          => /\ req'[i].response.status_code
                    = OtherVariant(i).response.status_code
             /\ [req'[i].response.content EXCEPT !.message = ""]
                    = [OtherVariant(i).response.content EXCEPT !.message = ""]
             /\ req'[i].response.status_code # 200
                    => req'[i].response = OtherVariant(i).response
             /\ rate_limit_store' = OtherVariant(i).store
             /\ SameButLabels(StepLog(i), OtherVariant(i).log)]_vars

C12_Witness ==
    \E i \in Answered :
        /\ req[i].path = MocapPath
        /\ req[i].response.status_code = 200
        /\ req[i].response.content.message = "Mocap event queued for processing"
        /\ req[i].response.content.data_hash
              = hexdigest(sha256(motion_data_str(req[i].body)))
        /\ HasEvent(i, "info", "mocap_data_hashed")

StructuredOutcomes == {200, 401, 422, 429}

(* C13: every request to a webhook or attestation route, whatever the     *)
(* store, the secret and the X-Signature header, ends in exactly one      *)
(* structured response among 200, 401, 429 and the validation error; none *)
(* ends in an unhandled fault, and the response the client receives is    *)
(* the one the route produced.                                            *)
C13_EveryRequestEndsStructured ==
    \A i \in Slots :
        req[i].path \in RateLimitedPaths
        => /\ req[i].pc \in {"returned", "sent"}
                => req[i].response.status_code \in StructuredOutcomes
           /\ req[i].pc \in {"idle", "call_next"}
                => req[i].response = NoResponse

(* The mapping parsed from the motion_data of a webhook body: its keys.   *)
Mapping(body) == {body[k] : k \in 2..Len(body)}

(* C14: two accepted webhook requests whose motion_data mappings are      *)
(* equal, in whatever order their keys came on the wire, hold the same    *)
(* data_hash.                                                             *)
C14_DataHashIgnoresKeyOrder ==
    \A i, j \in Answered :
        /\ req[i].path \in WebhookPaths /\ req[j].path \in WebhookPaths
        /\ req[i].response.status_code = 200
        /\ req[j].response.status_code = 200
        /\ Mapping(req[i].body) = Mapping(req[j].body)
        => req[i].response.content.data_hash
              = req[j].response.content.data_hash

NonDecreasing(seq) ==
    \A k \in 1..Len(seq) : \A m \in k..Len(seq) : seq[k] <= seq[m]

(* C15: right after every rate_limit call for an identity at time now,    *)
(* admitted or rejected, every timestamp of the identity lies within      *)
(* [now - rate_limit_window, now] and the sequence is non-decreasing; a   *)
(* step that is not a rate_limit call leaves the whole store unchanged.   *)
C15_RequestWindowInvariant ==
    [][/\ \A i \in Slots :
             CallsRateLimit(i)
             => /\ client_ip(req[i]) \in DOMAIN rate_limit_store'
                /\ \A k \in 1..Len(rate_limit_store'[client_ip(req[i])]) :
                      /\ now - WindowTicks
                            <= rate_limit_store'[client_ip(req[i])][k]
                      /\ rate_limit_store'[client_ip(req[i])][k] <= now
                /\ NonDecreasing(rate_limit_store'[client_ip(req[i])])
       /\ (\A i \in Slots : ~CallsRateLimit(i))
             => rate_limit_store' = rate_limit_store
       /\ now' >= now]_vars

C15_Witness ==
    \E i \in Slots :
        /\ req[i].pc = "returned"
        /\ req[i].path \in RateLimitedPaths
        /\ req[i].response.status_code = 200
        /\ client_ip(req[i]) \in history.rejected
        /\ settings.rate_limit_requests = 2
        /\ rate_limit_store[client_ip(req[i])]
              = <<now - WindowTicks + 1, now>>

(* The timestamps of seq that satisfy Keep, in order. *)
Kept(seq, Keep(_)) == SelectSeq(seq, Keep)

(* C16 as claimed: a rate_limit call at time now compares against the     *)
(* limit the number of timestamps ts of the identity with                 *)
(* now - window <= ts <= now, and prunes a timestamp only when            *)
(* ts < now - window: one exactly the window old is retained and counted. *)
C16_WindowBoundaryInclusive ==
    [][\A i \in Slots :
          CallsRateLimit(i)
          => LET ip == client_ip(req[i])
                 before == Recorded(rate_limit_store, ip)
                 retained == Kept(before, LAMBDA ts : now - WindowTicks <= ts)
             IN  /\ req'[i].response.status_code = 429
                       <=> Len(retained) >= settings.rate_limit_requests
                 /\ rate_limit_store'[ip] =
                       IF req'[i].response.status_code = 429
                       THEN retained ELSE Append(retained, now)]_vars

(* C16 as amended: a rate_limit call at time now compares against the     *)
(* limit the number of timestamps ts of the identity with                 *)
(* now - window < ts <= now, and prunes every timestamp with              *)
(* ts <= now - window: one exactly the window old is pruned and not       *)
(* counted.                                                               *)
C16_WindowBoundaryExclusive ==
    [][\A i \in Slots :
          CallsRateLimit(i)
          => LET ip == client_ip(req[i])
                 before == Recorded(rate_limit_store, ip)
                 retained == Kept(before, LAMBDA ts : now - WindowTicks < ts)
             IN  /\ \A k \in 1..Len(before) : before[k] <= now
                 /\ req'[i].response.status_code = 429
                       <=> Len(retained) >= settings.rate_limit_requests
                 /\ rate_limit_store'[ip] =
                       IF req'[i].response.status_code = 429
                       THEN retained ELSE Append(retained, now)]_vars

C16_Witness ==
    \E i \in Slots :
        /\ req[i].pc = "returned"
        /\ req[i].path \in RateLimitedPaths
        /\ req[i].response.status_code = 200
        /\ client_ip(req[i]) \in history.edge
        /\ settings.rate_limit_requests = 1
        /\ now = WindowTicks
        /\ rate_limit_store[client_ip(req[i])] = <<now>>

HmacEvents ==
    {"hmac_verification_skipped", "hmac_signature_missing",
     "hmac_verification_failed", "hmac_verified"}

(* C17: on a webhook route the tracer has run before the route, the rate  *)
(* limiter runs before verify_hmac: a request of an identity at its limit *)
(* ends in 429 whatever its signature, never in 401, and verify_hmac is   *)
(* not evaluated for it; for an admitted request verify_hmac is           *)
(* evaluated, after the tracer.                                           *)
C17_RateLimitBeforeHmac ==
    [][\A i \in Slots :
          WebhookStep(i)
          => /\ req[i].log = <<Event("info", "request_received")>>
             /\ req[i].trace_id # ""
             /\ IF FreshCount(rate_limit_store, client_ip(req[i]), now)
                      >= settings.rate_limit_requests
                THEN /\ req'[i].response.status_code = 429
                     /\ \A k \in 1..Len(StepLog(i)) :
                           StepLog(i)[k][2] \notin HmacEvents
                ELSE /\ req'[i].response.status_code # 429
                     /\ (settings.webhook_secret = <<>>
                           \/ IsNone(req[i].x_signature)
                           \/ IsAscii(Get(req[i].x_signature)))
                         => /\ StepLog(i) # <<>>
                            /\ StepLog(i)[1][2] \in HmacEvents]_vars

C17_Witness ==
    \E i \in Answered :
        /\ req[i].path \in WebhookPaths
        /\ settings.webhook_secret # <<>>
        /\ req[i].x_signature # RequiredSignature(req[i].body)
        /\ req[i].response.status_code = 429
        /\ HasEvent(i, "warning", "rate_limit_exceeded")
        /\ ~HasEvent(i, "error", "hmac_signature_missing")
        /\ ~HasEvent(i, "error", "hmac_verification_failed")

(* The identity of the sender of the request in slot i. *)
Sender(i) ==
    IF IsNone(req[i].client) THEN "unknown" ELSE Get(req[i].client)

C19_RefusedRequestConsumesSlot ==
    [][\A i \in Slots :
          WebhookStep(i)
          => LET ip == client_ip(req[i])
                 before == Recorded(rate_limit_store, ip)
             IN  /\ req'[i].response.status_code = 401
                       => rate_limit_store'[ip] =
                             Append(Kept(before,
                                         LAMBDA ts : now - ts < WindowTicks),
                                    now)
                 /\ (/\ ip \in history.refused
                      /\ FreshCount(rate_limit_store, ip, now)
                            >= settings.rate_limit_requests
                      /\ req[i].x_signature = RequiredSignature(req[i].body))
                       => /\ req'[i].response.status_code = 429
                          /\ ip \in history'.refused]_vars

C19_Witness ==
    \E i \in Slots :
        /\ req[i].pc = "returned"
        /\ req[i].path \in WebhookPaths
        /\ settings.webhook_secret # <<>>
        /\ req[i].x_signature = RequiredSignature(req[i].body)
        /\ MotionEventWebhook(req[i].body)
        /\ req[i].response.status_code = 429
        /\ client_ip(req[i]) \in history.refused
        /\ settings.rate_limit_requests = 2
        /\ Len(rate_limit_store[client_ip(req[i])]) = 2

(* Slot i runs a health route in this step. *)
HealthStep(i) ==
    /\ req[i].pc = "call_next"
    /\ req'[i].pc = "returned"
    /\ req[i].path \in {HealthPath, ReadyPath}

(* C20: the three rate-limited routes draw on one sequence per identity:  *)
(* a request to any of them is answered 429 exactly when the identity's   *)
(* timestamps in the window, whichever route recorded them, reach the     *)
(* limit, and an admitted one is recorded in that same sequence; the      *)
(* attestation route never answers 401; a health route never changes the  *)
(* store and answers without regard to it.                                *)
C20_OneBudgetForAllRoutes ==
    [][\A i \in Slots :
          /\ CallsRateLimit(i)
                => /\ DOMAIN rate_limit_store' \subseteq Identities
                   /\ IF Len(Kept(Recorded(rate_limit_store, Sender(i)),
                                   LAMBDA ts : now - ts < WindowTicks))
                            >= settings.rate_limit_requests
                      THEN req'[i].response.status_code = 429
                      ELSE /\ req'[i].response.status_code # 429
                           /\ Len(Recorded(rate_limit_store', Sender(i))) >= 1
                           /\ Recorded(rate_limit_store', Sender(i))
                                 [Len(Recorded(rate_limit_store', Sender(i)))]
                                 = now
                   /\ req[i].path = AttestPath
                         => req'[i].response.status_code \in {200, 422, 429}
          /\ HealthStep(i)
                => /\ rate_limit_store' = rate_limit_store
                   /\ history' = history
                   /\ req'[i].response.status_code \in {200, 503}]_vars

C20_Witness ==
    \E i, j \in Slots :
        /\ req[i].pc = "returned" /\ req[j].pc = "returned"
        /\ req[i].path \in WebhookPaths
        /\ req[j].path = AttestPath
        /\ client_ip(req[i]) = client_ip(req[j])
        /\ req[i].response.status_code = 200
        /\ req[j].response.status_code = 429
        /\ settings.rate_limit_requests = 1
        /\ now < WindowTicks
        /\ rate_limit_store[client_ip(req[i])] = <<now>>

====
